---- MODULE Spec2Model ----
(***************************************************************************)
(* Model of Scripts/run_tutorial_tests_ci.py: the command line driver      *)
(* (main), TutorialTestRunner.run_all_tests, run_test_for_language and the *)
(* two supervised child processes of a locale job (_configure_language,    *)
(* _run_tutorial_test).  The child process, the file system and the clock  *)
(* are the environment; every statement of the runner that can observe or  *)
(* change them is a step of its own.                                       *)
(*                                                                         *)
(* The tutorial test AIBasedSegmentationIn3DSlicer.py                      *)
(* (Slicer4MinuteTest.test_Slicer4Minute1) runs inside the application; it *)
(* is modelled by the variable tut and the specification TutSpec.          *)
(***************************************************************************)
EXTENDS Integers, Sequences, FiniteSets, TLC

VARIABLES
    pc,              \* position of the single thread of the runner
    args,            \* parsed command line: slicer_exists, timeout, languages
    SLICER_TIMEOUT,  \* module global, rewritten by main
    output_dir,      \* TRUE when the output directory exists
    lang_i,          \* index of the for loop of run_all_tests
    results,         \* dict of run_all_tests: sequence of <<key, verdict>>
    config_success,  \* local of run_test_for_language
    verdict,         \* value being returned by run_test_for_language
    proc,            \* the Popen object and the supervised child behind it
    pipe,            \* lines written by the child and not yet read
    output_lines,    \* local list of the supervising function
    elapsed,         \* time.time() - start_time of the current phase
    scripts,         \* transient script files present on disk
    fs,              \* result artifacts present in the output directory
    orphans,         \* children still alive after their supervisor returned
    attempted,       \* indices whose _configure_language has been entered
    fault,           \* the last exception raised in the current locale job
    report,          \* summary built by generate_report
    exit_code,       \* code passed to sys.exit
    tut              \* Slicer4MinuteTest.test_Slicer4Minute1 and its scene

vars == <<pc, args, SLICER_TIMEOUT, output_dir, lang_i, results,
          config_success, verdict, proc, pipe, output_lines, elapsed,
          scripts, fs, orphans, attempted, fault, report, exit_code, tut>>

----------------------------------------------------------------------------
(* Bounds of the model *)

MaxLines == 1        \* lines a child writes to its stdout
MaxElapsed == 301    \* the clock of a phase is not advanced beyond this
MaxVerdicts == 3     \* locales of a batch handed to generate_report

----------------------------------------------------------------------------
(* Program constants *)

DefaultTimeout == 300    \* SLICER_TIMEOUT at import
config_timeout == 30
ConfigGrace == 2         \* time.sleep(2) after terminate in configure
RunGrace == 5            \* process.wait(timeout=5) after terminate in execute
ConfigWait == 5          \* process.wait(timeout=5) after the configure loop

\* Locale codes are strings; they are kept as sequences of characters so
\* that str.replace can be computed.
fr_FR == <<"f", "r", "-", "F", "R">>
pt_BR == <<"p", "t", "-", "B", "R">>
pt_BR_u == <<"p", "t", "_", "B", "R">>
es_419 == <<"e", "s", "-", "4", "1", "9">>

LocaleCodes == {fr_FR, pt_BR, pt_BR_u, es_419}

\* Lists given to run_all_tests (argparse nargs='+' hands over whatever it
\* is given, repeated codes included): empty, one locale, two locales, the
\* same locale twice, two codes with the same result file.
LangLists ==
    {<<>>, <<fr_FR>>, <<fr_FR, pt_BR>>, <<fr_FR, fr_FR>>, <<pt_BR, pt_BR_u>>}

TimeoutArgs == {60, DefaultTimeout}

\* language_code.replace('-', '_')
Replace(s) == [k \in DOMAIN s |-> IF s[k] = "-" THEN "_" ELSE s[k]]

\* self.output_dir / f"result_{language_code.replace('-', '_')}.json"
ResultFile(code) == <<"result_">> \o Replace(code) \o <<".json">>

ResultFiles == {ResultFile(c) : c \in LocaleCodes}

\* Optional values: None is the empty tuple, a value v is <<v>>.
None == <<>>
Some(v) == <<v>>


tutorial_name == "TestTutorial"

\* A line of output is the set of the marker texts it contains, so that
\* Python's  "text" in line  is membership.
PlainLine == {}
SavedLine == {"ok_mark", "Configuracao"}
Lines == {PlainLine, SavedLine}

\* lines a child of either phase may print: log_message of the generated
\* configure script prints the confirmation, the tutorial script does not
LinesOf(phase) == IF phase = "cfg" THEN Lines ELSE {PlainLine}

ExitCodes == {0, 1}      \* codes a child exits with by itself
SIGTERM == 15
SIGKILL == 9

\* Contents of a file of the output directory.
Absent == [kind |-> "absent"]
Corrupt == [kind |-> "corrupt"]
Json(data) == [kind |-> "json", data |-> data]

\* Records a child writes to its result file: the two records of the
\* generated tutorial script, and what another program may leave there.
ArtifactStatuses == {"success", "error", "passed"}
Artifact(code, status, pid) ==
    [language |-> code, tutorial |-> tutorial_name, status |-> status,
     writer |-> pid]

\* Files an earlier batch may have left in the output directory (writer 0).
StaleContent(f) ==
    Json(Artifact(CHOOSE c \in LocaleCodes : ResultFile(c) = f, "success", 0))

\* Python dict with insertion order: d[k] = v
DictKeys(d) == [k \in DOMAIN d |-> d[k][1]]
DictHas(d, k) == \E j \in DOMAIN d : d[j][1] = k
DictSet_append(d, k, v) == Append(d, <<k, v>>)
DictSet(d, k, v) ==
    IF DictHas(d, k)
    THEN [j \in DOMAIN d |-> IF d[j][1] = k THEN <<k, v>> ELSE d[j]]
    ELSE Append(d, <<k, v>>)

\* result.get('status', 'unknown')
GetStatus(r) == IF "status" \in DOMAIN r THEN r.status ELSE "unknown"

NoProc ==
    [pid |-> 0, phase |-> "none", lang |-> <<>>, job |-> 0, alive |-> FALSE,
     eof |-> TRUE, exit |-> None, returncode |-> None,
     term |-> FALSE, kill |-> FALSE, written |-> 0, max_timeout |-> None]

\* subprocess.Popen(cmd, stdout=PIPE, ...); job is the index of the locale
\* job that spawns the process, max_timeout the wait limit written into the
\* tutorial script the execute child is started with
Popen(pid, phase, code) ==
    [pid |-> pid, phase |-> phase, lang |-> code, job |-> lang_i,
     alive |-> TRUE,
     eof |-> FALSE, exit |-> None, returncode |-> None,
     term |-> FALSE, kill |-> FALSE, written |-> 0,
     max_timeout |-> IF phase = "run" THEN Some(SLICER_TIMEOUT) ELSE None]

\* process.poll() / a returning process.wait(): the exit status is stored
\* in process.returncode once the child is dead.
Reap(p) == IF p.alive THEN p ELSE [p EXCEPT !.returncode = p.exit]

CurLang == args.languages[lang_i]

----------------------------------------------------------------------------
(* Data of the tutorial test *)

max_wait_time == 300     \* of each of the three wait loops

\* the segmentation runs of the test: prostate, brain glioma, whole body
Stages == {1, 2, 3}

\* A segmentation node of the scene: the run that produced it (0: it was in
\* the scene before the test), and what the check of a wait loop meets in
\* it: the segment names the loop of its run expects, other segments or
\* none, or a node whose segmentation cannot be read (the check raises).
NodeKinds == {"expected", "other", "broken"}
SegNode(origin, kind) == [origin |-> origin, kind |-> kind]

\* elapsed times of a wait loop at which the clock is read: an early one,
\* the limit, the first one after the limit
WaitPoints == {1, max_wait_time, max_wait_time + 1}

\* the test before it is started
TutIdle ==
    [pc |-> "idle", stage |-> 0, segment_found |-> FALSE, elapsed |-> 0,
     scene |-> {}, runs |-> [k \in Stages |-> "idle"],
     outcome |-> [k \in Stages |-> "none"]]

----------------------------------------------------------------------------
Init ==
    /\ pc = "main_validate"
    /\ args \in [slicer_exists : BOOLEAN, timeout : TimeoutArgs,
                 languages : LangLists]
    /\ SLICER_TIMEOUT = DefaultTimeout
    /\ lang_i = 0
    /\ results = <<>>
    /\ config_success = FALSE
    /\ verdict = <<>>
    /\ proc = NoProc
    /\ pipe = <<>>
    /\ output_lines = <<>>
    /\ elapsed = 0
    /\ scripts = {}
    /\ fs \in {[g \in ResultFiles |-> Absent],
               [g \in ResultFiles |-> StaleContent(g)]}
    \* the batches of two locales start with the short timeout in an empty
    \* output directory
    /\ Len(args.languages) > 1 =>
          /\ args.timeout # DefaultTimeout
          /\ \A g \in ResultFiles : fs[g] = Absent
    /\ output_dir = (\E g \in ResultFiles : fs[g] # Absent)
    /\ orphans = 0
    /\ attempted = {}
    /\ fault = "none"
    /\ report = <<>>
    /\ exit_code = None
    /\ tut = TutIdle

----------------------------------------------------------------------------
(* main *)

\* main without the check of the executable path
MainValidate_unchecked ==
    /\ pc = "main_validate"
    /\ pc' = "main_timeout"
    /\ UNCHANGED <<tut, args, SLICER_TIMEOUT, output_dir, lang_i, results,
                   config_success, verdict, proc, pipe, output_lines,
                   elapsed, scripts, fs, orphans, attempted, fault, report,
                   exit_code>>

\* if not os.path.exists(args.slicer_path): sys.exit(1)
MainValidate ==
    /\ pc = "main_validate"
    /\ IF args.slicer_exists
       THEN pc' = "main_timeout" /\ UNCHANGED exit_code
       ELSE pc' = "done" /\ exit_code' = Some(1)
    /\ UNCHANGED <<tut, args, SLICER_TIMEOUT, output_dir, lang_i, results,
                   config_success, verdict, proc, pipe, output_lines,
                   elapsed, scripts, fs, orphans, attempted, fault, report>>

\* main without the assignment of the global
MainSetTimeout_skip ==
    /\ pc = "main_timeout"
    /\ pc' = "main_runner"
    /\ UNCHANGED <<tut, args, SLICER_TIMEOUT, output_dir, lang_i, results,
                   config_success, verdict, proc, pipe, output_lines,
                   elapsed, scripts, fs, orphans, attempted, fault, report,
                   exit_code>>

\* SLICER_TIMEOUT = args.timeout
MainSetTimeout ==
    /\ pc = "main_timeout"
    /\ SLICER_TIMEOUT' = args.timeout
    /\ pc' = "main_runner"
    /\ UNCHANGED <<tut, args, output_dir, lang_i, results, config_success,
                   verdict, proc, pipe, output_lines, elapsed, scripts, fs,
                   orphans, attempted, fault, report, exit_code>>

\* runner = TutorialTestRunner(...): __init__ creates the output directory;
\* mkdir raising is outside main's try and ends the interpreter with code 1.
MainCreateRunner ==
    /\ pc = "main_runner"
    /\ \/ /\ output_dir' = TRUE
          /\ pc' = "rat_loop"
          /\ UNCHANGED exit_code
       \/ /\ pc' = "done"
          /\ exit_code' = Some(1)
          /\ UNCHANGED output_dir
    /\ UNCHANGED <<tut, args, SLICER_TIMEOUT, lang_i, results, config_success,
                   verdict, proc, pipe, output_lines, elapsed, scripts, fs,
                   orphans, attempted, fault, report>>

----------------------------------------------------------------------------
(* Groups of variables *)

\* (the runner never touches the tutorial test of the application)
drv == <<args, SLICER_TIMEOUT, output_dir, report, exit_code, tut>>
loopv == <<lang_i, results, attempted>>
job == <<config_success, verdict, fault>>
child == <<proc, pipe, output_lines, elapsed>>

\* The Popen object goes out of scope when the supervising function
\* returns: what stays of it is which child it was, the signals it was
\* sent and the exit status last seen by the supervisor.  A child that is
\* still alive then keeps running without a supervisor and is counted in
\* orphans.
Released(p) ==
    [NoProc EXCEPT !.pid = p.pid, !.phase = p.phase, !.lang = p.lang,
                   !.job = p.job, !.term = p.term, !.kill = p.kill,
                   !.returncode = p.returncode]
Left(p) == IF p.alive THEN 1 ELSE 0

----------------------------------------------------------------------------
(* run_all_tests and run_test_for_language *)

\* for lang in language_codes: result = self.run_test_for_language(lang)
\* which calls self._configure_language(language_code) first
RatLoop ==
    /\ pc = "rat_loop"
    /\ IF lang_i < Len(args.languages)
       THEN /\ lang_i' = lang_i + 1
            /\ attempted' = attempted \cup {lang_i + 1}
            /\ pc' = "cfg_create"
       ELSE /\ pc' = "report"
            /\ UNCHANGED <<lang_i, attempted>>
    /\ UNCHANGED <<drv, results, job, child, scripts, fs, orphans>>

\* the except clause of run_test_for_language
ExceptionVerdict(code) ==
    [language |-> code, tutorial |-> tutorial_name, status |-> "exception",
     error |-> "exception", execution_time |-> 0]

\* the verdict returned when config_success is false
ConfigFailedVerdict(code) ==
    [language |-> code, tutorial |-> tutorial_name, status |-> "error",
     error |-> "config_failed", execution_time |-> 0]

\* run_test_for_language without  if not config_success: return
run_test_for_language_unchecked ==
    /\ pc = "rtl_check"
    /\ pc' = "run_create"
    /\ UNCHANGED <<drv, loopv, config_success, verdict, fault, child,
                   scripts, fs, orphans>>

\* run_test_for_language configuring again after a failed configuration
run_test_for_language_retry ==
    /\ pc = "rtl_check"
    /\ pc' = IF ~config_success THEN "cfg_create" ELSE "run_create"
    /\ UNCHANGED <<drv, loopv, config_success, verdict, fault, child,
                   scripts, fs, orphans>>

\* if not config_success: return {...}; return self._run_tutorial_test(...)
run_test_for_language ==
    /\ pc = "rtl_check"
    /\ IF ~config_success
       THEN /\ verdict' = ConfigFailedVerdict(CurLang)
            /\ pc' = "rat_record"
       ELSE /\ pc' = "run_create"
            /\ UNCHANGED verdict
    /\ UNCHANGED <<drv, loopv, config_success, fault, child, scripts, fs,
                   orphans>>

\* run_all_tests leaving its loop at the first verdict that is no success
RatRecord_abort ==
    /\ pc = "rat_record"
    /\ results' = DictSet(results, CurLang, verdict)
    /\ verdict' = <<>>
    /\ fault' = "none"
    /\ pc' = IF GetStatus(verdict) = "success" THEN "rat_loop" ELSE "report"
    /\ UNCHANGED <<drv, lang_i, attempted, config_success, child,
                   scripts, fs, orphans>>

\* run_all_tests recording the successes only
RatRecord_successes ==
    /\ pc = "rat_record"
    /\ results' = IF GetStatus(verdict) = "success"
                  THEN DictSet(results, CurLang, verdict) ELSE results
    /\ verdict' = <<>>
    /\ fault' = "none"
    /\ pc' = "rat_loop"
    /\ UNCHANGED <<drv, lang_i, attempted, config_success, child,
                   scripts, fs, orphans>>

\* results[lang] = result, the end of the locale job
RatRecord ==
    /\ pc = "rat_record"
    /\ results' = DictSet(results, CurLang, verdict)
    /\ verdict' = <<>>
    /\ fault' = "none"
    /\ pc' = "rat_loop"
    /\ UNCHANGED <<drv, lang_i, attempted, config_success, child,
                   scripts, fs, orphans>>

----------------------------------------------------------------------------
(* _configure_language *)

\* config_script = self._create_language_config_script(language_code)
\* is outside the try of _configure_language: a fault reaches the except
\* clause of run_test_for_language.  NamedTemporaryFile(delete=False) may
\* have created the file before f.write raises.
CfgCreate ==
    /\ pc = "cfg_create"
    /\ \/ /\ scripts' = scripts \cup {"config"}
          /\ pc' = "cfg_spawn"
          /\ UNCHANGED <<verdict, fault>>
       \/ /\ scripts' \in {scripts, scripts \cup {"config"}}
          /\ verdict' = ExceptionVerdict(CurLang)
          /\ fault' = "cfg_create"
          /\ pc' = "rat_record"
    /\ UNCHANGED <<drv, loopv, config_success, child, fs, orphans>>

\* return of _configure_language: the finally clause unlinks the script
CfgReturn(value, p) ==
    /\ config_success' = value
    /\ scripts' = scripts \ {"config"}
    /\ proc' = Released(p)
    /\ orphans' = orphans + Left(p)
    /\ pipe' = <<>>
    /\ output_lines' = <<>>
    /\ elapsed' = 0
    /\ pc' = "rtl_check"

\* start_time = time.time(); process = subprocess.Popen(...)
\* a fault is caught by  except Exception: return False
CfgSpawn ==
    /\ pc = "cfg_spawn"
    /\ \/ /\ proc' = Popen(proc.pid + 1, "cfg", CurLang)
          /\ elapsed' = 0
          /\ pipe' = <<>>
          /\ output_lines' = <<>>
          /\ pc' = "cfg_loop"
          /\ UNCHANGED <<config_success, scripts, fault, orphans>>
       \/ /\ CfgReturn(FALSE, proc)
          /\ fault' = "cfg_spawn"
    /\ UNCHANGED <<drv, loopv, verdict, fs>>

\* while True: if process.poll() is not None: break
\*             if elapsed > config_timeout: process.terminate() ...
CfgLoop ==
    /\ pc = "cfg_loop"
    /\ IF ~proc.alive
       THEN /\ proc' = Reap(proc)
            /\ pc' = "cfg_wait"
       ELSE IF elapsed > config_timeout
            THEN /\ proc' = [proc EXCEPT !.term = TRUE]
                 /\ pc' = "cfg_grace"
            ELSE /\ pc' = "cfg_read"
                 /\ UNCHANGED proc
    /\ UNCHANGED <<drv, loopv, job, pipe, output_lines, elapsed, scripts,
                   fs, orphans>>

\* time.sleep(2)
CfgGrace ==
    /\ pc = "cfg_grace"
    /\ elapsed' = elapsed + ConfigGrace
    /\ pc' = "cfg_grace_poll"
    /\ UNCHANGED <<drv, loopv, job, proc, pipe, output_lines, scripts, fs,
                   orphans>>

\* if process.poll() is None: process.kill()
CfgGracePoll ==
    /\ pc = "cfg_grace_poll"
    /\ proc' = IF proc.alive THEN [proc EXCEPT !.kill = TRUE] ELSE Reap(proc)
    /\ pc' = "cfg_timed_out"
    /\ UNCHANGED <<drv, loopv, job, pipe, output_lines, elapsed, scripts,
                   fs, orphans>>

\* the timeout path returning what the scan of the captured lines says
CfgTimedOut_scan ==
    /\ pc = "cfg_timed_out"
    /\ CfgReturn(\E k \in DOMAIN output_lines : output_lines[k] = SavedLine,
                 proc)
    /\ UNCHANGED <<drv, loopv, verdict, fault, fs>>

\* return False
CfgTimedOut ==
    /\ pc = "cfg_timed_out"
    /\ CfgReturn(FALSE, proc)
    /\ UNCHANGED <<drv, loopv, verdict, fault, fs>>

\* line = process.stdout.readline(): returns a line, or '' at end of file,
\* and blocks while the pipe is empty and the child holds it open.
CfgRead ==
    /\ pc = "cfg_read"
    /\ \/ /\ pipe # <<>>
          /\ output_lines' = Append(output_lines, Head(pipe))
          /\ pipe' = Tail(pipe)
          /\ pc' = "cfg_loop"
          /\ UNCHANGED fault
       \/ /\ pipe = <<>>
          /\ proc.eof
          /\ pc' = "cfg_loop"
          /\ UNCHANGED <<pipe, output_lines, fault>>
       \/ /\ pipe # <<>> \/ proc.eof
          /\ fault' = "read"
          /\ pc' = "cfg_wait"
          /\ UNCHANGED <<pipe, output_lines>>
    /\ UNCHANGED <<drv, loopv, config_success, verdict, proc, elapsed,
                   scripts, fs, orphans>>

\* try: process.wait(timeout=5)
\* except subprocess.TimeoutExpired: process.kill(); process.wait()
CfgWait ==
    /\ pc = "cfg_wait"
    /\ IF ~proc.alive
       THEN /\ proc' = Reap(proc)
            /\ pc' = "cfg_result"
            /\ UNCHANGED elapsed
       ELSE /\ proc' = [proc EXCEPT !.kill = TRUE]
            /\ elapsed' = elapsed + ConfigWait
            /\ pc' = "cfg_killwait"
    /\ UNCHANGED <<drv, loopv, job, pipe, output_lines, scripts, fs, orphans>>

\* process.kill() without the process.wait() that follows it
CfgKillWait_nowait ==
    /\ pc = "cfg_killwait"
    /\ proc' = Reap(proc)
    /\ pc' = "cfg_result"
    /\ UNCHANGED <<drv, loopv, job, pipe, output_lines, elapsed, scripts,
                   fs, orphans>>

\* process.kill(); process.wait()
CfgKillWait ==
    /\ pc = "cfg_killwait"
    /\ ~proc.alive
    /\ proc' = Reap(proc)
    /\ pc' = "cfg_result"
    /\ UNCHANGED <<drv, loopv, job, pipe, output_lines, elapsed, scripts,
                   fs, orphans>>

\* config_found / success_msg_found
config_found(lines) ==
    \E k \in DOMAIN lines :
        "pt-BR" \in lines[k] /\ "i18n habilitado: True" \in lines[k]
success_msg_found(lines) ==
    \E k \in DOMAIN lines :
        "ok_mark" \in lines[k] /\ "Configuracao" \in lines[k]

\* _configure_language judging by the exit code alone
ConfigSuccess_exitonly(returncode, lines) ==
    returncode = Some(0)

\* success = process.returncode == 0, else the scan of output_lines
ConfigSuccess(returncode, lines) ==
    IF returncode = Some(0) THEN TRUE
    ELSE config_found(lines) \/ success_msg_found(lines)

CfgResult ==
    /\ pc = "cfg_result"
    /\ CfgReturn(ConfigSuccess(proc.returncode, output_lines), proc)
    /\ UNCHANGED <<drv, loopv, verdict, fault, fs>>

----------------------------------------------------------------------------
(* _run_tutorial_test *)

\* the except clause of _run_tutorial_test
RunFaultVerdict(code) ==
    [language |-> code, tutorial |-> tutorial_name, status |-> "error",
     error |-> "exception", execution_time |-> 0]

\* the verdict built when result_file does not exist
NoResultVerdict(code, lines, time, return_code) ==
    [language |-> code, tutorial |-> tutorial_name, status |-> "error",
     error |-> "no_result_file", slicer_output |-> lines,
     execution_time |-> time, return_code |-> return_code]

\* result_data = json.load(f); result_data['execution_time'] = ... ;
\* result_data['return_code'] = ... ; result_data['slicer_output'] = ...
MergedVerdict(data, lines, time, return_code) ==
    [execution_time |-> time, return_code |-> return_code,
     slicer_output |-> lines] @@ data

\* _run_tutorial_test without its except clause: json.load raising reaches
\* the except clause of run_test_for_language
RunVerdict_uncaught(content, code, lines, time, return_code) ==
    IF content = Absent THEN NoResultVerdict(code, lines, time, return_code)
    ELSE IF content = Corrupt THEN ExceptionVerdict(code)
    ELSE MergedVerdict(content.data, lines, time, return_code)

\* if result_file.exists(): ... else: ...   (json.load raising is caught by
\* the except clause of _run_tutorial_test)
RunVerdict(content, code, lines, time, return_code) ==
    IF content = Absent THEN NoResultVerdict(code, lines, time, return_code)
    ELSE IF content = Corrupt THEN RunFaultVerdict(code)
    ELSE MergedVerdict(content.data, lines, time, return_code)

\* test_script = self._create_tutorial_test_script(language_code)
\* is outside the try of _run_tutorial_test
RunCreate ==
    /\ pc = "run_create"
    /\ \/ /\ scripts' = scripts \cup {"test"}
          /\ pc' = "run_spawn"
          /\ UNCHANGED <<verdict, config_success, fault>>
       \/ /\ scripts' \in {scripts, scripts \cup {"test"}}
          /\ verdict' = ExceptionVerdict(CurLang)
          /\ fault' = "run_create"
          /\ config_success' = FALSE
          /\ pc' = "rat_record"
    /\ UNCHANGED <<drv, loopv, child, fs, orphans>>

\* return of _run_tutorial_test: the finally clause unlinks the script
RunReturn(value, p) ==
    /\ verdict' = value
    /\ scripts' = scripts \ {"test"}
    /\ proc' = Released(p)
    /\ orphans' = orphans + Left(p)
    /\ pipe' = <<>>
    /\ output_lines' = <<>>
    /\ elapsed' = 0
    /\ config_success' = FALSE
    /\ pc' = "rat_record"

\* start_time = time.time(); process = subprocess.Popen(...)
RunSpawn ==
    /\ pc = "run_spawn"
    /\ \/ /\ proc' = Popen(proc.pid + 1, "run", CurLang)
          /\ elapsed' = 0
          /\ pipe' = <<>>
          /\ output_lines' = <<>>
          /\ pc' = "run_loop"
          /\ UNCHANGED <<config_success, verdict, scripts, fault, orphans>>
       \/ /\ RunReturn(RunFaultVerdict(CurLang), proc)
          /\ fault' = "run_spawn"
    /\ UNCHANGED <<drv, loopv, fs>>

\* the loop of _run_tutorial_test with kill() in the place of terminate()
RunLoop_kill ==
    /\ pc = "run_loop"
    /\ IF ~proc.alive
       THEN /\ proc' = Reap(proc)
            /\ pc' = "run_result"
       ELSE IF elapsed > SLICER_TIMEOUT
            THEN /\ proc' = [proc EXCEPT !.kill = TRUE]
                 /\ pc' = "run_killwait"
            ELSE /\ pc' = "run_read"
                 /\ UNCHANGED proc
    /\ UNCHANGED <<drv, loopv, job, pipe, output_lines, elapsed, scripts,
                   fs, orphans>>

\* while True: if process.poll() is not None: break
\*             if elapsed > SLICER_TIMEOUT: process.terminate() ...
RunLoop ==
    /\ pc = "run_loop"
    /\ IF ~proc.alive
       THEN /\ proc' = Reap(proc)
            /\ pc' = "run_result"
       ELSE IF elapsed > SLICER_TIMEOUT
            THEN /\ proc' = [proc EXCEPT !.term = TRUE]
                 /\ pc' = "run_termwait"
            ELSE /\ pc' = "run_read"
                 /\ UNCHANGED proc
    /\ UNCHANGED <<drv, loopv, job, pipe, output_lines, elapsed, scripts,
                   fs, orphans>>

\* try: process.wait(timeout=5)
\* except subprocess.TimeoutExpired: process.kill(); process.wait()
RunTermWait ==
    /\ pc = "run_termwait"
    /\ IF ~proc.alive
       THEN /\ proc' = Reap(proc)
            /\ pc' = "run_result"
            /\ UNCHANGED elapsed
       ELSE /\ proc' = [proc EXCEPT !.kill = TRUE]
            /\ elapsed' = elapsed + RunGrace
            /\ pc' = "run_killwait"
    /\ UNCHANGED <<drv, loopv, job, pipe, output_lines, scripts, fs, orphans>>

RunKillWait ==
    /\ pc = "run_killwait"
    /\ ~proc.alive
    /\ proc' = Reap(proc)
    /\ pc' = "run_result"
    /\ UNCHANGED <<drv, loopv, job, pipe, output_lines, elapsed, scripts,
                   fs, orphans>>

\* line = process.stdout.readline()  with  except: break
RunRead ==
    /\ pc = "run_read"
    /\ \/ /\ pipe # <<>>
          /\ output_lines' = Append(output_lines, Head(pipe))
          /\ pipe' = Tail(pipe)
          /\ pc' = "run_loop"
          /\ UNCHANGED fault
       \/ /\ pipe = <<>>
          /\ proc.eof
          /\ pc' = "run_loop"
          /\ UNCHANGED <<pipe, output_lines, fault>>
       \/ /\ pipe # <<>> \/ proc.eof
          /\ fault' = "read"
          /\ pc' = "run_result"
          /\ UNCHANGED <<pipe, output_lines>>
    /\ UNCHANGED <<drv, loopv, config_success, verdict, proc, elapsed,
                   scripts, fs, orphans>>

\* return_code = process.returncode; execution_time = time.time() - start_time
\* and the check of the result file
RunResult ==
    /\ pc = "run_result"
    /\ RunReturn(RunVerdict(fs[ResultFile(CurLang)], CurLang, output_lines,
                            elapsed, proc.returncode), proc)
    /\ fault' = IF fs[ResultFile(CurLang)] = Corrupt THEN "artifact" ELSE fault
    /\ UNCHANGED <<drv, loopv, fs>>

----------------------------------------------------------------------------
(* generate_report and the exit code of main *)

\* generate_report counting every verdict that is not an error
Successful_noterror(d) ==
    Cardinality({k \in DOMAIN d : GetStatus(d[k][2]) # "error"})

\* sum(1 for r in results.values() if r.get('status') == 'success')
Successful(d) ==
    Cardinality({k \in DOMAIN d : GetStatus(d[k][2]) = "success"})

\* success_rate as the fraction <<numerator, denominator>> of
\* successful_tests / total_tests * 100, and 0 when total_tests is 0
SuccessRate(successful, total) ==
    IF total > 0 THEN <<successful * 100, total>> ELSE <<0, 1>>

Summary(d) ==
    [total_tests |-> Len(d),
     successful_tests |-> Successful(d),
     failed_tests |-> Len(d) - Successful(d),
     success_rate |-> SuccessRate(Successful(d), Len(d))]

\* main with  elif success_rate > 50
ExitCodeFor_above(rate) ==
    IF rate[1] = 100 * rate[2] THEN 0
    ELSE IF rate[1] > 50 * rate[2] THEN 1
    ELSE 2

\* if success_rate == 100: 0 elif success_rate >= 50: 1 else: 2
ExitCodeFor(rate) ==
    IF rate[1] = 100 * rate[2] THEN 0
    ELSE IF rate[1] >= 50 * rate[2] THEN 1
    ELSE 2

\* report = runner.generate_report(results); writing test_report.json may
\* raise, which main turns into sys.exit(3)
GenerateReport ==
    /\ pc = "report"
    /\ \/ /\ report' = Summary(results)
          /\ pc' = "main_exit"
          /\ UNCHANGED exit_code
       \/ /\ exit_code' = Some(3)
          /\ pc' = "done"
          /\ UNCHANGED report
    /\ UNCHANGED <<tut, args, SLICER_TIMEOUT, output_dir, loopv, job, child,
                   scripts, fs, orphans>>

MainExit ==
    /\ pc = "main_exit"
    /\ exit_code' = Some(ExitCodeFor(report.success_rate))
    /\ pc' = "done"
    /\ UNCHANGED <<tut, args, SLICER_TIMEOUT, output_dir, report, loopv, job,
                   child, scripts, fs, orphans>>

----------------------------------------------------------------------------
(* The environment: the child process, the other processes, the clock *)

envFrame == <<pc, drv, loopv, job, output_lines, scripts>>

\* the child prints a line
ChildWrite ==
    /\ proc.alive /\ ~proc.eof
    /\ proc.written < MaxLines
    /\ \E line \in LinesOf(proc.phase) : pipe' = Append(pipe, line)
    /\ proc' = [proc EXCEPT !.written = @ + 1]
    /\ UNCHANGED <<envFrame, elapsed, fs, orphans>>

\* the child closes its standard output and keeps running
ChildCloseStdout ==
    /\ proc.alive /\ ~proc.eof
    /\ proc' = [proc EXCEPT !.eof = TRUE]
    /\ UNCHANGED <<envFrame, pipe, elapsed, fs, orphans>>

Dead(p, status) ==
    [p EXCEPT !.alive = FALSE, !.eof = TRUE, !.exit = Some(status)]

\* the child exits by itself
ChildExit ==
    /\ proc.alive
    /\ \E c \in ExitCodes : proc' = Dead(proc, c)
    /\ UNCHANGED <<envFrame, pipe, elapsed, fs, orphans>>

\* the child dies of the signal sent by terminate() or kill()
ChildSignalled ==
    /\ proc.alive
    /\ \/ proc.term /\ proc' = Dead(proc, -SIGTERM)
       \/ proc.kill /\ proc' = Dead(proc, -SIGKILL)
    /\ UNCHANGED <<envFrame, pipe, elapsed, fs, orphans>>

\* the child of the execute phase writes its result file (the generated
\* script writes result_<locale>.json; a kill may leave it truncated)
ChildWriteArtifact ==
    /\ proc.alive /\ proc.phase = "run"
    /\ \E content \in
            {Corrupt}
            \cup {Json(Artifact(proc.lang, st, proc.pid)) :
                     st \in ArtifactStatuses} :
          /\ fs[ResultFile(proc.lang)] # content
          /\ fs' = [fs EXCEPT ![ResultFile(proc.lang)] = content]
    /\ UNCHANGED <<envFrame, proc, pipe, elapsed, orphans>>

\* a child left behind by its supervisor ends
OrphanExit ==
    /\ orphans > 0
    /\ orphans' = orphans - 1
    /\ UNCHANGED <<envFrame, proc, pipe, elapsed, fs>>

\* Instant at which the clock is observed after the start of a phase: the
\* first one after the budget of the phase.
TimePoints(budget) == {t \in 0..MaxElapsed : t = budget + 1}

\* time passes while the runner is suspended in readline or sleep
Tick ==
    /\ pc \in {"cfg_read", "run_read"}
    /\ \E t \in TimePoints(IF pc = "cfg_read" THEN config_timeout
                            ELSE SLICER_TIMEOUT) :
          /\ t > elapsed
          /\ elapsed' = t
    /\ UNCHANGED <<envFrame, proc, pipe, fs, orphans>>

----------------------------------------------------------------------------
Runner ==
    \/ MainValidate \/ MainSetTimeout \/ MainCreateRunner
    \/ RatLoop \/ run_test_for_language \/ RatRecord
    \/ CfgCreate \/ CfgSpawn \/ CfgLoop \/ CfgGrace \/ CfgGracePoll
    \/ CfgTimedOut \/ CfgRead
    \/ CfgWait \/ CfgKillWait \/ CfgResult
    \/ RunCreate \/ RunSpawn \/ RunLoop \/ RunTermWait \/ RunKillWait
    \/ RunRead \/ RunResult
    \/ GenerateReport \/ MainExit

Next ==
    \/ MainValidate \/ MainSetTimeout \/ MainCreateRunner
    \/ RatLoop \/ run_test_for_language \/ RatRecord
    \/ CfgCreate \/ CfgSpawn \/ CfgLoop \/ CfgGrace \/ CfgGracePoll
    \/ CfgTimedOut \/ CfgRead
    \/ CfgWait \/ CfgKillWait \/ CfgResult
    \/ RunCreate \/ RunSpawn \/ RunLoop \/ RunTermWait \/ RunKillWait
    \/ RunRead \/ RunResult
    \/ GenerateReport \/ MainExit
    \/ ChildWrite \/ ChildCloseStdout \/ ChildExit \/ ChildSignalled
    \/ ChildWriteArtifact \/ OrphanExit \/ Tick

Spec == Init /\ [][Next]_vars

\* The runner is a running thread, the clock advances over the sleeps of a
\* polling loop, and a child that was sent SIGKILL dies; nothing is assumed
\* of a child that was not.
FairSpec ==
    /\ Spec
    /\ WF_vars(Runner)
    /\ SF_vars(Tick)
    /\ WF_vars(ChildSignalled /\ proc.kill)

----------------------------------------------------------------------------
(* generate_report and main's exit code on the results of any batch: the    *)
(* state at the return of run_all_tests, for every combination of outcomes  *)
(* of the locale jobs of a list of up to MaxVerdicts codes.                 *)

BatchCodes == <<fr_FR, pt_BR, es_419, pt_BR_u>>

\* outcomes of a locale job: the script could not be created, the
\* configuration failed, the artifact read has status success or passed
Outcomes == {"exception", "config_failed", "success", "passed"}

\* processes spawned by a locale job of this outcome
SpawnedBy(outcome) ==
    IF outcome = "exception" THEN 0
    ELSE IF outcome = "config_failed" THEN 1 ELSE 2

\* pid of the last process spawned by the jobs 1..k
RECURSIVE LastPid(_, _)
LastPid(outcomes, k) ==
    IF k = 0 THEN 0 ELSE LastPid(outcomes, k - 1) + SpawnedBy(outcomes[k])

\* the verdict run_test_for_language returns for the job k
OutcomeVerdict(outcomes, k) ==
    LET code == BatchCodes[k]
    IN IF outcomes[k] = "exception" THEN ExceptionVerdict(code)
       ELSE IF outcomes[k] = "config_failed" THEN ConfigFailedVerdict(code)
       ELSE MergedVerdict(Artifact(code, outcomes[k], LastPid(outcomes, k)),
                          <<>>, 0, Some(0))

\* the last job that spawned a process, 0 if none did
LastSpawning(outcomes) ==
    LET ks == {k \in DOMAIN outcomes : outcomes[k] # "exception"}
    IN IF ks = {} THEN 0 ELSE CHOOSE k \in ks : \A j \in ks : j <= k

\* the result file g as the jobs left it
FileAfter(outcomes, g) ==
    LET ks == {k \in DOMAIN outcomes :
                  /\ ResultFile(BatchCodes[k]) = g
                  /\ outcomes[k] \in {"success", "passed"}}
    IN IF ks = {} THEN Absent
       ELSE LET k == CHOOSE k \in ks : \A j \in ks : j <= k
            IN Json(Artifact(BatchCodes[k], outcomes[k], LastPid(outcomes, k)))

ReportInit ==
    \E n \in 0..MaxVerdicts : \E outcomes \in [1..n -> Outcomes] :
        /\ n <= Len(BatchCodes)
        /\ pc = "report"
        /\ args = [slicer_exists |-> TRUE, timeout |-> 60,
                   languages |-> SubSeq(BatchCodes, 1, n)]
        /\ SLICER_TIMEOUT = args.timeout
        /\ output_dir = TRUE
        /\ lang_i = n
        /\ attempted = 1..n
        /\ results = [k \in 1..n |->
                         <<BatchCodes[k], OutcomeVerdict(outcomes, k)>>]
        /\ config_success = FALSE
        /\ verdict = <<>>
        /\ proc = LET k == LastSpawning(outcomes)
                  IN IF k = 0 THEN NoProc
                     ELSE [NoProc EXCEPT
                             !.pid = LastPid(outcomes, k),
                             !.phase = IF outcomes[k] = "config_failed"
                                       THEN "cfg" ELSE "run",
                             !.lang = BatchCodes[k],
                             !.job = k,
                             !.returncode = IF outcomes[k] = "config_failed"
                                            THEN Some(1) ELSE Some(0)]
        /\ pipe = <<>>
        /\ output_lines = <<>>
        /\ elapsed = 0
        /\ scripts = {}
        /\ fs = [g \in ResultFiles |-> FileAfter(outcomes, g)]
        /\ orphans = 0
        /\ fault = "none"
        /\ report = <<>>
        /\ exit_code = None
        /\ tut = TutIdle

ReportNext == GenerateReport \/ MainExit

ReportSpec == ReportInit /\ [][ReportNext]_vars

----------------------------------------------------------------------------
(* The scan of the captured output at the return of _configure_language,   *)
(* on any output of the child: the application prints more than the lines  *)
(* of the generated script (stderr is merged into the pipe).               *)

\* the text of a locale code as it appears in a line of output
LocaleText(code) ==
    CASE code = fr_FR -> "fr-FR"
      [] code = pt_BR -> "pt-BR"
      [] code = pt_BR_u -> "pt_BR"
      [] code = es_419 -> "es-419"

\* a line that reports the language setting and the i18n switch together
EnabledLine(code) == {LocaleText(code), "i18n habilitado: True"}

ScanLines == {PlainLine, SavedLine} \cup {EnabledLine(c) : c \in LocaleCodes}

\* captured output of a configure child that has ended
ScanOutputs ==
    {<<>>} \cup {<<a>> : a \in ScanLines}
           \cup {<<a, b>> : a \in ScanLines, b \in ScanLines}

\* the state after process.wait() of a configure call for one locale
ScanInit ==
    \E code \in LocaleCodes : \E c \in ExitCodes \cup {-SIGKILL} :
    \E lines \in ScanOutputs :
        /\ pc = "cfg_result"
        /\ args = [slicer_exists |-> TRUE, timeout |-> DefaultTimeout,
                   languages |-> <<code>>]
        /\ SLICER_TIMEOUT = args.timeout
        /\ output_dir = TRUE
        /\ lang_i = 1
        /\ attempted = {1}
        /\ results = <<>>
        /\ config_success = FALSE
        /\ verdict = <<>>
        /\ proc = [NoProc EXCEPT !.pid = 1, !.phase = "cfg", !.lang = code,
                                 !.job = 1, !.exit = Some(c),
                                 !.returncode = Some(c),
                                 !.kill = (c = -SIGKILL),
                                 !.written = Len(lines)]
        /\ pipe = <<>>
        /\ output_lines = lines
        /\ elapsed = 0
        /\ scripts = {"config"}
        /\ fs = [g \in ResultFiles |-> Absent]
        /\ orphans = 0
        /\ fault = "none"
        /\ report = <<>>
        /\ exit_code = None
        /\ tut = TutIdle

ScanNext == CfgResult

ScanSpec == ScanInit /\ [][ScanNext]_vars

----------------------------------------------------------------------------
(* Slicer4MinuteTest.test_Slicer4Minute1: three segmentation runs, each     *)
(* started by a click on the apply button and awaited by a polling loop.    *)
(* The segmentation runs are the environment.                               *)

runnerVars ==
    <<pc, args, SLICER_TIMEOUT, output_dir, lang_i, results, config_success,
      verdict, proc, pipe, output_lines, elapsed, scripts, fs, orphans,
      attempted, fault, report, exit_code>>

\* the test is started in an application whose scene may hold a
\* segmentation; the runner is not involved
TutInit ==
    /\ pc = "main_validate"
    /\ args = [slicer_exists |-> TRUE, timeout |-> DefaultTimeout,
               languages |-> <<fr_FR>>]
    /\ SLICER_TIMEOUT = DefaultTimeout
    /\ output_dir = FALSE
    /\ lang_i = 0
    /\ results = <<>>
    /\ config_success = FALSE
    /\ verdict = <<>>
    /\ proc = NoProc
    /\ pipe = <<>>
    /\ output_lines = <<>>
    /\ elapsed = 0
    /\ scripts = {}
    /\ fs = [g \in ResultFiles |-> Absent]
    /\ orphans = 0
    /\ attempted = {}
    /\ fault = "none"
    /\ report = <<>>
    /\ exit_code = None
    /\ \E before \in {{}, {SegNode(0, "other")}} :
          tut = [TutIdle EXCEPT !.pc = "clear", !.scene = before]

\* slicer.mrmlScene.Clear(0)
TutClear ==
    /\ tut.pc = "clear"
    /\ tut' = [tut EXCEPT !.pc = "setup", !.stage = 1, !.scene = {}]
    /\ UNCHANGED runnerVars

\* the statements before a click: loading the data, selecting the model and
\* its input nodes; any of them may raise, which ends the test
TutSetup ==
    /\ tut.pc = "setup"
    /\ \/ tut' = [tut EXCEPT !.pc = "click"]
       \/ tut' = [tut EXCEPT !.pc = "aborted"]
    /\ UNCHANGED runnerVars

\* runButton.click()
TutClick ==
    /\ tut.pc = "click"
    /\ tut' = [tut EXCEPT !.pc = "wait_init", !.runs[tut.stage] = "running"]
    /\ UNCHANGED runnerVars

\* segment_found = False; start_time = time.time()
TutWaitInit ==
    /\ tut.pc = "wait_init"
    /\ tut' = [tut EXCEPT !.pc = "while", !.segment_found = FALSE,
                          !.elapsed = 0]
    /\ UNCHANGED runnerVars

\* while not segment_found: slicer.app.processEvents()
TutWhile ==
    /\ tut.pc = "while"
    /\ IF ~tut.segment_found
       THEN tut' = [tut EXCEPT !.pc = "time_check"]
       ELSE tut' = [tut EXCEPT !.pc = "after",
                               !.outcome[tut.stage] = "found"]
    /\ UNCHANGED runnerVars

\* the wait loop without its test of the elapsed time
TutTimeCheck_nobreak ==
    /\ tut.pc = "time_check"
    /\ tut' = [tut EXCEPT !.pc = "check"]
    /\ UNCHANGED runnerVars

\* if time.time() - start_time > max_wait_time: break
TutTimeCheck ==
    /\ tut.pc = "time_check"
    /\ IF tut.elapsed > max_wait_time
       THEN tut' = [tut EXCEPT !.pc = "after",
                               !.outcome[tut.stage] = "timeout"]
       ELSE tut' = [tut EXCEPT !.pc = "check"]
    /\ UNCHANGED runnerVars

\* a node in which the loop of this stage finds the names it expects
\* (the three loops look for different names, lines 177, 282 and 357: a
\* node is taken to carry the names of the run that produced it only)
Expected(stage, scene) ==
    {n \in scene : n.origin = stage /\ n.kind = "expected"}

\* try: for seg_node in segmentation_nodes: ... segment_found = True; break
\* except Exception: pass
\* The nodes are visited in the order of the scene: the expected node is
\* found unless a node that raises is met before it.
TutCheck ==
    /\ tut.pc = "check"
    /\ \/ /\ Expected(tut.stage, tut.scene) # {}
          /\ tut' = [tut EXCEPT !.pc = "sleep", !.segment_found = TRUE]
       \/ /\ \/ Expected(tut.stage, tut.scene) = {}
             \/ \E n \in tut.scene : n.kind = "broken"
          /\ tut' = [tut EXCEPT !.pc = "sleep"]
    /\ UNCHANGED runnerVars

\* time.sleep(1)
TutSleep ==
    /\ tut.pc = "sleep"
    /\ \E t \in WaitPoints :
          /\ t > tut.elapsed
          /\ tut' = [tut EXCEPT !.pc = "while", !.elapsed = t]
    /\ UNCHANGED runnerVars

\* after a loop: the segmentation nodes are removed before the next stage;
\* after the last loop the 3D view is shown
TutAfter ==
    /\ tut.pc = "after"
    /\ IF tut.stage < Cardinality(Stages)
       THEN tut' = [tut EXCEPT !.pc = "setup", !.stage = @ + 1,
                               !.scene = {}]
       ELSE tut' = [tut EXCEPT !.pc = "finish"]
    /\ UNCHANGED runnerVars

\* show3DButton.toggle() ... self.delayDisplay('Test passed!')
TutFinish ==
    /\ tut.pc = "finish"
    /\ \/ tut' = [tut EXCEPT !.pc = "passed"]
       \/ tut' = [tut EXCEPT !.pc = "aborted"]
    /\ UNCHANGED runnerVars

\* a segmentation run ends: it adds its segmentation node to the scene, or
\* fails and adds nothing
SegRunEnds ==
    /\ tut.pc \notin {"idle", "passed", "aborted"}
    /\ \E k \in Stages :
          /\ tut.runs[k] = "running"
          /\ \/ tut' = [tut EXCEPT !.runs[k] = "done"]
             \/ \E kind \in NodeKinds :
                   tut' = [tut EXCEPT !.runs[k] = "done",
                                      !.scene = @ \cup {SegNode(k, kind)}]
    /\ UNCHANGED runnerVars

TutTest ==
    \/ TutClear \/ TutSetup \/ TutClick \/ TutWaitInit \/ TutWhile
    \/ TutTimeCheck \/ TutCheck \/ TutSleep \/ TutAfter \/ TutFinish

TutNext ==
    \/ TutClear \/ TutSetup \/ TutClick \/ TutWaitInit \/ TutWhile
    \/ TutTimeCheck \/ TutCheck \/ TutSleep \/ TutAfter \/ TutFinish
    \/ SegRunEnds

TutSpec == TutInit /\ [][TutNext]_vars

\* the test is a running thread of the application
TutFairSpec == TutSpec /\ WF_vars(TutTest)

----------------------------------------------------------------------------
(* Properties *)

Has(r, field) == field \in DOMAIN r

\* the last locale job has handed its verdict to run_all_tests
Returned == pc = "rat_record"

\* main has left run_all_tests and generate_report with an exit code
Completed ==
    /\ pc = "done"
    /\ lang_i = Len(args.languages)
    /\ exit_code \in {Some(0), Some(1), Some(2)}
    /\ output_dir /\ args.slicer_exists /\ SLICER_TIMEOUT = args.timeout
    /\ lang_i > 0 \/ exit_code = Some(2)

\* a step that spawns the execute process
SpawnsExecute == proc'.pid # proc.pid /\ proc'.phase = "run"

\* C1: the execute process of a locale is spawned only when
\* _configure_language returned true in the same call of
\* run_test_for_language; when it returned false the call returns, without
\* spawning anything, a verdict that is no success and has execution_time 0.
C1_ExecuteOnlyAfterConfigure ==
    [][/\ SpawnsExecute => (config_success /\ proc'.lang = CurLang)
       /\ (pc = "rtl_check" /\ ~config_success /\ pc' # pc) =>
             /\ pc' = "rat_record"
             /\ proc' = proc
             /\ verdict'.status # "success"
             /\ verdict'.execution_time = 0]_vars

C1_Witness == proc.phase = "run" /\ proc.alive /\ config_success

SupervisingConfigure ==
    pc \in {"cfg_loop", "cfg_grace", "cfg_grace_poll", "cfg_timed_out",
            "cfg_read", "cfg_wait", "cfg_killwait", "cfg_result"}
SupervisingExecute ==
    pc \in {"run_loop", "run_termwait", "run_killwait", "run_read",
            "run_result"}

\* C2: whatever the child does, a child that never exits and never writes
\* included, _configure_language and _run_tutorial_test return.
C2_SupervisionReturns ==
    /\ SupervisingConfigure ~> ~SupervisingConfigure
    /\ SupervisingExecute ~> ~SupervisingExecute

\* C3: a recorded verdict of status success comes from an execute process
\* whose exit code was zero.
C3_SuccessOnlyFromExitZero ==
    \A k \in DOMAIN results :
        GetStatus(results[k][2]) = "success" =>
            /\ Has(results[k][2], "return_code")
            /\ results[k][2].return_code = Some(0)

\* C4: the artifact read for a verdict was written by the execute process
\* of the call that returns the verdict.
C4_ArtifactOfOwnProcess ==
    (Returned /\ Has(verdict, "writer")) =>
        (proc.phase = "run" /\ verdict.writer = proc.pid)

\* C5: when run_all_tests returns, _configure_language has been entered for
\* every locale of the list, whatever the verdicts of the earlier locales.
C5_EveryLocaleAttempted ==
    pc \in {"report", "main_exit"} => attempted = DOMAIN args.languages

C5_Witness ==
    /\ pc = "report"
    /\ Len(results) = 2
    /\ GetStatus(results[1][2]) = "exception"
    /\ attempted = {1, 2}

\* the codes of a list in the order of their first occurrence
RECURSIVE FirstOccurrences(_)
FirstOccurrences(L) ==
    IF L = <<>> THEN <<>>
    ELSE LET front == FirstOccurrences(SubSeq(L, 1, Len(L) - 1))
             last == L[Len(L)]
         IN IF \E k \in DOMAIN front : front[k] = last
            THEN front ELSE Append(front, last)

SendsTerminate == proc'.pid = proc.pid /\ proc'.term /\ ~proc.term
SendsKill == proc'.pid = proc.pid /\ proc'.kill /\ ~proc.kill
Budget == IF proc.phase = "cfg" THEN config_timeout ELSE SLICER_TIMEOUT
Grace == IF proc.phase = "cfg" THEN ConfigGrace ELSE RunGrace

\* C7: terminate is sent only once the elapsed time exceeds the budget of
\* the phase; in the timeout handling kill is sent only to a child that was
\* sent terminate before and is still alive after the grace period (2 in
\* configure, 5 in execute).
C7_TerminateBeforeKill ==
    [][/\ SendsTerminate => (proc.alive /\ ~proc.kill /\ elapsed > Budget)
       /\ (SendsKill /\ pc \in {"cfg_loop", "cfg_grace", "cfg_grace_poll",
                                "run_loop", "run_termwait"}) =>
             /\ proc.term /\ proc.alive
             /\ pc \in {"cfg_grace_poll", "run_termwait"}
             /\ elapsed' > Budget + Grace]_vars

C7_Witness == proc.phase = "cfg" /\ proc.term /\ proc.kill /\ pc = "cfg_timed_out"

\* C8: in the batch of the single locale fr-FR whose child was terminated
\* for exceeding its timeout, the verdict has status timeout, the success
\* rate is 0 and the exit code is 2.
C8_HangScenario ==
    (Completed /\ args.languages = <<fr_FR>> /\ proc.term) =>
        /\ GetStatus(results[1][2]) = "timeout"
        /\ report.success_rate = <<0, 1>>
        /\ exit_code = Some(2)

VerdictKinds == {"success", "error", "timeout", "exception"}

\* C10: every recorded verdict has a status of the enumerated kinds
\* (the two error kinds are both written "error").
C10_StatusEnumerated ==
    \A k \in DOMAIN results :
        /\ Has(results[k][2], "status")
        /\ results[k][2].status \in VerdictKinds

\* a step in which _configure_language returns to run_test_for_language
ConfigureReturns == pc # "rtl_check" /\ pc' = "rtl_check"

\* the persistence confirmation of the generated configure script is among
\* the captured lines
MarkerCaptured == \E k \in DOMAIN output_lines : output_lines[k] = SavedLine

\* C11: when the configure child has exited and was not terminated for
\* exceeding the budget, _configure_language returns true if the exit code
\* is zero, whatever was captured, and returns true if the exit code is not
\* zero and the captured output holds the persistence confirmation.
C11_BenignNonZero ==
    [][(ConfigureReturns /\ proc.phase = "cfg" /\ proc.exit # None
           /\ ~proc.term) =>
          /\ proc.returncode = proc.exit
          /\ proc.exit = Some(0) => config_success'
          /\ (proc.exit # Some(0) /\ MarkerCaptured) => config_success']_vars

C11_Witness ==
    /\ pc = "rtl_check" /\ config_success
    /\ proc.phase = "cfg" /\ ~proc.term
    /\ proc.returncode = Some(1)

\* the runner is inside _configure_language / inside _run_tutorial_test
InConfigure == pc \in {"cfg_create", "cfg_spawn"} \/ SupervisingConfigure
InExecute == pc \in {"run_create", "run_spawn"} \/ SupervisingExecute

\* C12: once _configure_language or _run_tutorial_test has returned or
\* raised, the transient script it created is no longer on disk.
C12_ScriptsRemoved ==
    /\ ~InConfigure => "config" \notin scripts
    /\ ~InExecute => "test" \notin scripts

\* a step in which _run_tutorial_test returns the verdict built from the
\* result file
ExecuteReturns == pc = "run_result" /\ pc' = "rat_record"

\* the result file of the current locale holds a record of this status
ArtifactHas(status) ==
    /\ fs[ResultFile(CurLang)].kind = "json"
    /\ fs[ResultFile(CurLang)].data.status = status

\* C13: when the execute child has exited with code 0 and the result file
\* holds a record of status success, the verdict returned has status
\* success, every field of the record, execution_time, return_code 0 and
\* the captured lines.
C13_SuccessArtifactMerged ==
    [][(ExecuteReturns /\ proc.exit = Some(0) /\ ArtifactHas("success")) =>
          LET data == fs[ResultFile(CurLang)].data
          IN /\ verdict'.status = "success"
             /\ \A f \in DOMAIN data :
                   f \in DOMAIN verdict' /\ verdict'[f] = data[f]
             /\ verdict'.execution_time = elapsed
             /\ verdict'.return_code = Some(0)
             /\ verdict'.slicer_output = output_lines]_vars

\* generate_report has returned its report
ReportBuilt == DOMAIN report # {}

\* the verdicts of status success among the recorded ones
SuccessVerdicts ==
    {k \in DOMAIN results :
        Has(results[k][2], "status") /\ results[k][2].status = "success"}

\* C14: for the N recorded verdicts of which S have status success, the
\* report has total_tests N, successful_tests S, failed_tests N - S, and a
\* success_rate equal to S / N * 100, which is 0 when N is 0.
C14_ReportCounts ==
    ReportBuilt =>
        LET N == Len(results)
            S == Cardinality(SuccessVerdicts)
            rate == report.success_rate
        IN /\ report.total_tests = N
           /\ report.successful_tests = S
           /\ report.failed_tests = N - S
           /\ report.total_tests =
                 report.successful_tests + report.failed_tests
           /\ rate[2] > 0
           /\ rate[1] * N = S * 100 * rate[2]
           /\ N = 0 => rate[1] = 0

C14_Witness ==
    /\ ReportBuilt
    /\ report.total_tests = 3
    /\ report.successful_tests = 1
    /\ report.failed_tests = 2

\* main has exited after run_all_tests went through a list of at least one
\* locale (argparse nargs='+' accepts no empty list)
BatchDone ==
    /\ pc = "done"
    /\ Len(args.languages) >= 1
    /\ lang_i = Len(args.languages)

\* C15: after a batch the exit code is 0 when every recorded verdict is a
\* success, 1 when at least half and not all of them are, 2 when fewer than
\* half are, and 3 when generate_report raised.
C15_ExitCodes ==
    BatchDone =>
        LET N == Len(results)
            S == Cardinality(SuccessVerdicts)
        IN /\ (ReportBuilt /\ S = N) => exit_code = Some(0)
           /\ (ReportBuilt /\ 2 * S >= N /\ S < N) => exit_code = Some(1)
           /\ (ReportBuilt /\ 2 * S < N) => exit_code = Some(2)
           /\ ~ReportBuilt => exit_code = Some(3)

C15_Witness ==
    /\ BatchDone /\ ReportBuilt
    /\ Len(results) = 2 /\ Cardinality(SuccessVerdicts) = 1
    /\ exit_code = Some(1)

\* C16: when the path given to main does not exist, main exits at once:
\* the output directory is not created, SLICER_TIMEOUT is not changed, no
\* process is spawned, no script or result file is written, no report.
C16_ValidatedFirst ==
    /\ [](~args.slicer_exists =>
            /\ pc \in {"main_validate", "done"}
            /\ SLICER_TIMEOUT = DefaultTimeout
            /\ proc = NoProc /\ orphans = 0
            /\ scripts = {} /\ results = <<>> /\ attempted = {}
            /\ ~ReportBuilt
            /\ pc = "done" => exit_code = Some(1))
    /\ [][~args.slicer_exists => (output_dir' = output_dir /\ fs' = fs)]_vars

C16_Witness ==
    /\ ~args.slicer_exists /\ pc = "done"
    /\ args.timeout # DefaultTimeout
    /\ ~output_dir

\* a step that spawns a child process, of either phase
Spawns == proc'.pid # proc.pid

\* C17: a process is spawned for the locale at the index of the loop only,
\* and only when the verdict of every earlier element of the list has been
\* recorded and no verdict is waiting to be recorded.
C17_Sequential ==
    [][Spawns =>
          /\ lang_i \in DOMAIN args.languages
          /\ proc'.lang = CurLang
          /\ attempted = 1..lang_i
          /\ \A j \in 1..(lang_i - 1) : DictHas(results, args.languages[j])
          /\ verdict = <<>>
          /\ results' = results]_vars

C17_Witness ==
    /\ args.languages = <<fr_FR, pt_BR>>
    /\ lang_i = 2 /\ proc.alive /\ proc.lang = pt_BR
    /\ DictKeys(results) = <<fr_FR>>

\* C18: _configure_language returns true only when its child has exited and
\* its exit status has been collected, and the execute process is spawned
\* only in the place of such a configure child of the same locale job.
C18_ConfigureExitedFirst ==
    [][/\ (ConfigureReturns /\ config_success') =>
             /\ proc.phase = "cfg" /\ proc.lang = CurLang
             /\ ~proc.alive
             /\ proc.returncode # None
             /\ orphans' = orphans
       /\ SpawnsExecute =>
             /\ proc.phase = "cfg" /\ proc.lang = CurLang
             /\ ~proc.alive
             /\ proc.returncode # None]_vars

C18_Witness ==
    /\ pc = "run_spawn" /\ config_success
    /\ proc.phase = "cfg" /\ proc.kill /\ ~proc.alive
    /\ proc.returncode = Some(-SIGKILL)

\* C19: a locale job spawns at most one configure process and, after it, at
\* most one execute process; a job that returns a verdict of status success
\* has spawned both; the index of the loop only moves forward, so a job that
\* has returned its verdict spawns nothing more.
C19_NoRetries ==
    [][/\ Spawns =>
             /\ proc'.pid = proc.pid + 1
             /\ proc'.job = lang_i
             /\ verdict = <<>>
             /\ proc'.phase = "cfg" => proc.job < lang_i
             /\ proc'.phase = "run" => (proc.job = lang_i /\ proc.phase = "cfg")
       /\ (pc # "rat_record" /\ pc' = "rat_record"
             /\ GetStatus(verdict') = "success") =>
             /\ proc.job = lang_i /\ proc.phase = "run"
             /\ proc'.pid = proc.pid
       /\ lang_i' \in {lang_i, lang_i + 1}
       /\ lang_i' # lang_i => (pc = "rat_loop" /\ verdict = <<>>)]_vars

C19_Witness ==
    /\ pc = "rat_loop" /\ lang_i = 1
    /\ Len(results) = 1 /\ GetStatus(results[1][2]) = "success"
    /\ proc.pid = 2 /\ proc.phase = "run" /\ proc.job = 1

\* C20: when _run_tutorial_test looks for the result file and builds its
\* verdict, its child has ended and process.returncode holds the exit code.
C20_ChildEndedBeforeVerdict ==
    pc = "run_result" => (~proc.alive /\ proc.returncode # None)

\* C21: when the execute child has ended and there is no result file, the
\* verdict returned has status error and carries the exit code of the
\* child, the captured lines and the elapsed time.
C21_NoArtifactVerdict ==
    [][(ExecuteReturns /\ proc.exit # None
           /\ fs[ResultFile(CurLang)] = Absent) =>
          /\ verdict'.status = "error"
          /\ verdict'.return_code = proc.exit
          /\ verdict'.slicer_output = output_lines
          /\ verdict'.execution_time = elapsed]_vars

\* the configure child of the current locale job was sent terminate
ConfigureTimedOut ==
    proc.phase = "cfg" /\ proc.job = lang_i /\ proc.term

\* C22: when the poll of the configure loop finds the child running with
\* more than config_timeout elapsed, the loop terminates it and
\* _configure_language returns false whatever was captured; the verdict of
\* the locale is the one of a failed configuration and no execute process
\* is spawned.
C22_ConfigureTimeoutFails ==
    /\ [][(pc = "cfg_loop" /\ pc' # pc /\ proc.alive
              /\ elapsed > config_timeout) =>
             (pc' = "cfg_grace" /\ proc'.term)]_vars
    /\ [][(ConfigureReturns /\ ConfigureTimedOut) => ~config_success']_vars
    /\ [][SpawnsExecute => ~proc.term]_vars
    /\ []((Returned /\ ConfigureTimedOut) =>
             verdict = ConfigFailedVerdict(CurLang))

C22_Witness ==
    /\ pc = "cfg_timed_out" /\ ConfigureTimedOut
    /\ MarkerCaptured
    /\ elapsed > config_timeout

\* the execute child of the current locale job was sent terminate
ExecuteTimedOut ==
    proc.phase = "run" /\ proc.job = lang_i /\ proc.term

\* C23: the verdict returned after the execute child was terminated for
\* exceeding the timeout has an execution_time of at least SLICER_TIMEOUT.
C23_TimeoutElapsed ==
    (Returned /\ ExecuteTimedOut) =>
        /\ Has(verdict, "execution_time")
        /\ verdict.execution_time >= SLICER_TIMEOUT

\* C24: the execute loop terminates its child exactly when it finds it
\* running with more than args.timeout elapsed, the tutorial script of
\* every execute child is written with args.timeout as its wait limit, and
\* the configure loop terminates its child exactly when it finds it running
\* with more than config_timeout elapsed, whatever args.timeout is.
C24_TimeoutIsExecuteBudget ==
    /\ [][(pc = "run_loop" /\ pc' # pc) =>
             (proc'.term <=> (proc.alive /\ elapsed > args.timeout))]_vars
    /\ [][(pc = "cfg_loop" /\ pc' # pc) =>
             (proc'.term <=> (proc.alive /\ elapsed > config_timeout))]_vars
    /\ []((proc.phase = "run" /\ InExecute) =>
             proc.max_timeout = Some(args.timeout))
    /\ []((InConfigure \/ InExecute) => SLICER_TIMEOUT = args.timeout)

C24_Witness ==
    /\ args.timeout = 60 /\ lang_i = 2
    /\ proc.phase = "run" /\ proc.term /\ pc = "run_termwait"
    /\ elapsed = 61 /\ proc.max_timeout = Some(60)

\* the test is in one of its three wait loops
InWait == tut.pc \in {"while", "time_check", "check", "sleep"}

\* C25: each wait loop of the test is left; it is left only with
\* segment_found set or with more than max_wait_time elapsed, it is left at
\* the first test of its condition after segment_found was set, and at the
\* first test of the time that finds more than max_wait_time elapsed,
\* whatever the checks of the segments did.
C25_WaitLoopsTerminate ==
    /\ InWait ~> ~InWait
    /\ [][(InWait /\ ~InWait') =>
             (tut.segment_found \/ tut.elapsed > max_wait_time)]_vars
    /\ [][(tut.pc = "while" /\ tut.segment_found /\ tut'.pc # tut.pc) =>
             tut'.pc = "after"]_vars
    /\ [][(tut.pc = "time_check" /\ tut.elapsed > max_wait_time
              /\ tut'.pc # tut.pc) =>
             tut'.pc = "after"]_vars

C25_Witness ==
    /\ tut.pc = "after" /\ tut.stage = 3
    /\ ~tut.segment_found /\ tut.elapsed > max_wait_time
    /\ SegNode(3, "broken") \in tut.scene

\* C30: the test reaches 'Test passed!' only if each of its three wait loops
\* found the segments it expects; a loop left by its time limit never leads
\* to 'Test passed!'.
C30_PassedOnlyIfFound ==
    tut.pc = "passed" => \A k \in Stages : tut.outcome[k] = "found"

\* a line that confirms the preference was persisted for this locale: the
\* confirmation the generated script prints when the stored language is the
\* one it was generated for, or a line reporting this locale with i18n on
PersistedFor(line, code) ==
    \/ SavedLine \subseteq line
    \/ EnabledLine(code) \subseteq line

\* C26: when the configure child exited non-zero, _configure_language
\* returns true only if a captured line confirms the preference for the
\* locale requested in this call; a line naming another locale does not
\* make it return true.
C26_EvidenceForRequestedLocale ==
    [][(ConfigureReturns /\ pc = "cfg_result" /\ proc.returncode # Some(0)
           /\ config_success') =>
          \E k \in DOMAIN output_lines :
             PersistedFor(output_lines[k], CurLang)]_vars

\* C27: at most one child spawned by the runner is alive at any time, and
\* when a process is spawned the children spawned before it have ended.
C27_OneChildAlive ==
    /\ [](Left(proc) + orphans <= 1)
    /\ [][Spawns => (~proc.alive /\ orphans = 0)]_vars

\* the polling loop of a phase is left because poll() saw that the child,
\* which was sent no signal, has exited
LeavesLoopOnExit ==
    /\ pc \in {"cfg_loop", "run_loop"} /\ pc' # pc
    /\ ~proc.alive /\ ~proc.term /\ ~proc.kill

\* C28: when a phase ends because the child exited by itself, every line
\* the child wrote before it exited has been captured: nothing is left
\* unread in the pipe.
C28_NoLineLost ==
    [][LeavesLoopOnExit =>
          (pipe = <<>> /\ Len(output_lines) = proc.written)]_vars

\* C29: exit code 1 is produced only by a completed batch of which at
\* least half and not all of the verdicts are a success; the exit for a
\* missing executable has a code that no completed batch has.
C29_ExitOneMeansPartial ==
    exit_code = Some(1) =>
        LET N == Len(results)
            S == Cardinality(SuccessVerdicts)
        IN /\ args.slicer_exists
           /\ BatchDone /\ ReportBuilt
           /\ 2 * S >= N /\ S < N

\* a segmentation run is started: runButton.click()
StartsRun == tut.pc = "click" /\ tut'.pc = "wait_init"

\* C31: when a segmentation run is started, the scene holds no segmentation
\* node of an earlier stage or of before the test.
C31_SceneCleanAtClick ==
    [][StartsRun => ~\E n \in tut.scene : n.origin < tut.stage]_vars

====
